---- MODULE Spec2Model ----
(***************************************************************************)
(* keelson-connector-camera-realsense, bin/main.py.                        *)
(*                                                                         *)
(* Two threads share one collections.deque(maxlen=1):                      *)
(*   - the daemon thread running capture_frames() (lines 89-124), which    *)
(*     starts the RealSense pipeline, waits for frame sets and appends     *)
(*     (depth_colormap, color_image, ingress_timestamp) to the deque;      *)
(*   - the main thread (lines 132-195), which pops the deque, builds the   *)
(*     RawImage payloads and puts them on the Zenoh publishers, until a    *)
(*     KeyboardInterrupt ends it.                                          *)
(* deque.append and deque.pop are single atomic operations under the GIL.  *)
(* The history variables deposited, withdrawn, withdrawnAt, stampOf,       *)
(* put_color, put_depth, put_point_cloud record what the program did and   *)
(* dropped what the bus discarded; no action reads them.                   *)
(***************************************************************************)
EXTENDS Integers, Sequences, FiniteSets, TLC

\* Number of frame sets the device delivers in a run (bounds the model).
MaxCycles == 3

\* Number of frame sets the device delivers in the runs checked for liveness.
LiveCycles == 2

\* deque(maxlen=1), line 86.
maxlen == 1

\* config.enable_stream(..., 640, 480, ...), lines 94-95.
StreamWidth == 640
StreamHeight == 480
\* rs.format.bgr8 / the output of cv2.applyColorMap: 3 bytes per pixel.
Channels == 3

\* time.time_ns() moves on by one of these between two reads.
ClockSteps == {1, 2}

\* The values of args.publish that the main loop tests for.
PublishOptions == {"raw_color", "raw_depth"}

\* A frame accessor's result when the frame set lacks that frame (falsy).
NoFrame == [kind |-> "none", cycle |-> 0]
\* A local that has not been assigned yet.
Unset == [kind |-> "unset", cycle |-> 0, height |-> 0, width |-> 0, nbytes |-> 0]
NoEncoding == [height_dep |-> 0, width_dep |-> 0, len_dep |-> 0, width_step_dep |-> 0,
               height_col |-> 0, width_col |-> 0, len_color |-> 0, width_step_color |-> 0]

VARIABLES
    \* shared
    buffer,              \* the deque, line 86
    publish,             \* args.publish
    session,             \* the Zenoh session: "open" | "closed"
    pipeline,            \* the rs.pipeline: "created" | "started" (never stopped)
    \* device and clock
    nextCycle,           \* number of the next frame set the device delivers
    clock,               \* time.time_ns()
    \* capture thread
    cpc,                 \* position of the capture thread
    frames,              \* line 103
    cap_ingress_timestamp, \* line 104
    depth_frame,         \* line 107
    color_frame,         \* line 108
    cap_depth_colormap,  \* line 120
    cap_color_image,     \* line 117
    \* main thread
    ppc,                 \* position of the main thread
    depth_colormap,      \* line 137
    color_image,         \* line 137
    ingress_timestamp,   \* line 137
    enc,                 \* lines 144-150
    \* history
    deposited,           \* items appended, in order
    withdrawn,           \* items popped, in order
    withdrawnAt,         \* Len(deposited) at each pop
    stampOf,             \* cycle -> timestamp read for it
    incomplete,          \* cycles whose frame set lacked a frame
    put_color,           \* payloads put on publisher_image_color
    put_depth,           \* payloads put on publisher_image_depth
    put_point_cloud,     \* payloads put on publisher_point_cloud
    dropped              \* puts the bus discarded under congestion (DROP)

vars == <<buffer, publish, session, pipeline, nextCycle, clock, cpc, frames,
          cap_ingress_timestamp, depth_frame, color_frame, cap_depth_colormap,
          cap_color_image, ppc, depth_colormap, color_image, ingress_timestamp,
          enc, deposited, withdrawn, withdrawnAt, stampOf, incomplete,
          put_color, put_depth, put_point_cloud, dropped>>

captureVars == <<frames, cap_ingress_timestamp, depth_frame, color_frame,
                 cap_depth_colormap, cap_color_image>>
mainVars == <<depth_colormap, color_image, ingress_timestamp, enc>>
putVars == <<put_color, put_depth, put_point_cloud, dropped>>
historyVars == <<deposited, withdrawn, withdrawnAt, stampOf, incomplete>>

----------------------------------------------------------------------------
(* collections.deque(maxlen=1)                                             *)

\* deque.append(x): when the deque is full, the leftmost item is discarded.
DequeAppendUnbounded(d, x) == Append(d, x)
DequeAppendKeepOld(d, x) == IF Len(d) >= maxlen THEN d ELSE Append(d, x)
DequeAppend(d, x) ==
    IF Len(d) >= maxlen THEN Append(SubSeq(d, 2, Len(d)), x) ELSE Append(d, x)

\* deque.pop(): the rightmost item, and what is left. IndexError when empty.
DequePopItem(d) == d[Len(d)]
DequePeekRest(d) == d
DequePopRest(d) == SubSeq(d, 1, Len(d) - 1)

----------------------------------------------------------------------------
(* Frames and images                                                       *)

\* frames.get_depth_frame() / frames.get_color_frame()
GetDepthFrame(f) == IF f.depth THEN [kind |-> "depth", cycle |-> f.cycle] ELSE NoFrame
GetColorFrame(f) == IF f.color THEN [kind |-> "color", cycle |-> f.cycle] ELSE NoFrame

\* `not frame`
Falsy(f) == f.kind = "none"

\* np.asanyarray(color_frame.get_data()): 480 x 640 x 3 bytes
ColorArray(f) ==
    [kind |-> "color_image", cycle |-> f.cycle, height |-> StreamHeight,
     width |-> StreamWidth, nbytes |-> StreamHeight * StreamWidth * Channels]

\* cv2.applyColorMap(cv2.convertScaleAbs(np.asanyarray(depth_frame.get_data())))
Colorize(f) ==
    [kind |-> "depth_colormap", cycle |-> f.cycle, height |-> StreamHeight,
     width |-> StreamWidth, nbytes |-> StreamHeight * StreamWidth * Channels]

\* What a publisher declared with congestion_control=DROP (lines 53, 67, 80)
\* does with a put: it hands the message on, or discards it under congestion.
\* Either way put() returns normally.
PutOutcomes == {"sent", "dropped"}

\* The record of a discarded put.
Drop(stream, img) == [stream |-> stream, cycle |-> img.cycle]

\* RawImage payload of lines 158-166 / 175-183.
RawImage(ts, w, h, step, img) ==
    [timestamp |-> ts, width |-> w, height |-> h, encoding |-> "bgr8",
     step |-> step, data |-> [kind |-> img.kind, cycle |-> img.cycle, len |-> img.nbytes]]

----------------------------------------------------------------------------
Init ==
    /\ buffer = <<>>
    /\ publish \in SUBSET PublishOptions
    /\ session = "open"
    /\ pipeline = "created"
    /\ nextCycle = 1
    /\ clock = 0
    /\ cpc = "start"
    /\ frames = [cycle |-> 0, depth |-> FALSE, color |-> FALSE]
    /\ cap_ingress_timestamp = 0
    /\ depth_frame = NoFrame
    /\ color_frame = NoFrame
    /\ cap_depth_colormap = Unset
    /\ cap_color_image = Unset
    /\ ppc = "pop"
    /\ depth_colormap = Unset
    /\ color_image = Unset
    /\ ingress_timestamp = 0
    /\ enc = NoEncoding
    /\ deposited = <<>>
    /\ withdrawn = <<>>
    /\ withdrawnAt = <<>>
    /\ stampOf = [c \in {} |-> 0]
    /\ incomplete = {}
    /\ put_color = <<>>
    /\ put_depth = <<>>
    /\ put_point_cloud = <<>>
    /\ dropped = {}

\* The daemon thread runs as long as the process does.
ProcessAlive == ppc # "ended"

----------------------------------------------------------------------------
(* capture_frames(), lines 89-124                                          *)

\* pipeline.start(config), line 98.
PipelineStart ==
    /\ ProcessAlive /\ cpc = "start"
    /\ pipeline' = "started"
    /\ cpc' = "wait"
    /\ UNCHANGED <<buffer, publish, session, nextCycle, clock, captureVars,
                   ppc, mainVars, putVars, historyVars>>

\* pipeline.start(config) raises: the exception ends the thread.
PipelineStartFails ==
    /\ ProcessAlive /\ cpc = "start"
    /\ cpc' = "start_failed"
    /\ UNCHANGED <<buffer, publish, session, pipeline, nextCycle, clock,
                   captureVars, ppc, mainVars, putVars, historyVars>>

\* frames = pipeline.wait_for_frames(), line 103: the device delivers a set.
WaitForFrames ==
    /\ ProcessAlive /\ cpc = "wait"
    /\ nextCycle <= MaxCycles
    /\ \E d \in BOOLEAN, c \in BOOLEAN :
          frames' = [cycle |-> nextCycle, depth |-> d, color |-> c]
    /\ nextCycle' = nextCycle + 1
    /\ cpc' = "stamp"
    /\ UNCHANGED <<buffer, publish, session, pipeline, clock,
                   cap_ingress_timestamp, depth_frame, color_frame,
                   cap_depth_colormap, cap_color_image,
                   ppc, mainVars, putVars, historyVars>>

\* pipeline.wait_for_frames() raises RuntimeError (frame did not arrive in
\* time): nothing in the loop catches it, the exception ends the thread.
WaitForFramesTimeout ==
    /\ ProcessAlive /\ cpc = "wait"
    /\ cpc' = "wait_failed"
    /\ UNCHANGED <<buffer, publish, session, pipeline, nextCycle, clock,
                   captureVars, ppc, mainVars, putVars, historyVars>>

\* ingress_timestamp = time.time_ns(), line 104.
Stamp ==
    /\ ProcessAlive /\ cpc = "stamp"
    /\ \E t \in ClockSteps :
          /\ clock' = clock + t
          /\ cap_ingress_timestamp' = clock + t
          /\ stampOf' = [c \in DOMAIN stampOf \cup {frames.cycle} |->
                            IF c = frames.cycle THEN clock + t ELSE stampOf[c]]
    /\ cpc' = "get"
    /\ UNCHANGED <<buffer, publish, session, pipeline, nextCycle, frames,
                   depth_frame, color_frame, cap_depth_colormap, cap_color_image,
                   ppc, mainVars, putVars, deposited, withdrawn, withdrawnAt,
                   incomplete>>

\* Lines 107-111: fetch both frames; `continue` when either is missing.
GetFramesNoCheck ==
    /\ ProcessAlive /\ cpc = "get"
    /\ depth_frame' = GetDepthFrame(frames)
    /\ color_frame' = GetColorFrame(frames)
    /\ cpc' = "convert"
    /\ incomplete' = IF Falsy(depth_frame') \/ Falsy(color_frame')
                     THEN incomplete \cup {frames.cycle} ELSE incomplete
    /\ UNCHANGED <<buffer, publish, session, pipeline, nextCycle, clock, frames,
                   cap_ingress_timestamp, cap_depth_colormap, cap_color_image,
                   ppc, mainVars, putVars, deposited, withdrawn, withdrawnAt,
                   stampOf>>
GetFrames ==
    /\ ProcessAlive /\ cpc = "get"
    /\ depth_frame' = GetDepthFrame(frames)
    /\ color_frame' = GetColorFrame(frames)
    /\ IF Falsy(depth_frame') \/ Falsy(color_frame')
       THEN /\ cpc' = "wait"
            /\ incomplete' = incomplete \cup {frames.cycle}
       ELSE /\ cpc' = "convert"
            /\ incomplete' = incomplete
    /\ UNCHANGED <<buffer, publish, session, pipeline, nextCycle, clock, frames,
                   cap_ingress_timestamp, cap_depth_colormap, cap_color_image,
                   ppc, mainVars, putVars, deposited, withdrawn, withdrawnAt,
                   stampOf>>

\* Lines 114-122: the numpy arrays and the colormap. A missing frame leaves
\* the local of the previous cycle in place (reached only without the check).
Convert ==
    /\ ProcessAlive /\ cpc = "convert"
    /\ cap_color_image' =
          IF Falsy(color_frame) THEN cap_color_image ELSE ColorArray(color_frame)
    /\ cap_depth_colormap' =
          IF Falsy(depth_frame) THEN cap_depth_colormap ELSE Colorize(depth_frame)
    /\ cpc' = "append"
    /\ UNCHANGED <<buffer, publish, session, pipeline, nextCycle, clock, frames,
                   cap_ingress_timestamp, depth_frame, color_frame,
                   ppc, mainVars, putVars, historyVars>>

\* buffer.append((depth_colormap, color_image, ingress_timestamp)), line 124.
BufferAppendWhenEmpty ==
    /\ ProcessAlive /\ cpc = "append"
    /\ buffer = <<>>
    /\ LET item == <<cap_depth_colormap, cap_color_image, cap_ingress_timestamp>>
       IN /\ buffer' = DequeAppend(buffer, item)
          /\ deposited' = Append(deposited, item)
    /\ cpc' = "wait"
    /\ UNCHANGED <<publish, session, pipeline, nextCycle, clock, captureVars,
                   ppc, mainVars, putVars, withdrawn, withdrawnAt, stampOf,
                   incomplete>>
BufferAppend ==
    /\ ProcessAlive /\ cpc = "append"
    /\ LET item == <<cap_depth_colormap, cap_color_image, cap_ingress_timestamp>>
       IN /\ buffer' = DequeAppend(buffer, item)
          /\ deposited' = Append(deposited, item)
    /\ cpc' = "wait"
    /\ UNCHANGED <<publish, session, pipeline, nextCycle, clock, captureVars,
                   ppc, mainVars, putVars, withdrawn, withdrawnAt, stampOf,
                   incomplete>>

----------------------------------------------------------------------------
(* main(), lines 132-195                                                   *)

\* buffer.pop() returns an item, line 137.
BufferPopPeek ==
    /\ ppc = "pop"
    /\ buffer # <<>>
    /\ LET item == DequePopItem(buffer)
       IN /\ depth_colormap' = item[1]
          /\ color_image' = item[2]
          /\ ingress_timestamp' = item[3]
          /\ withdrawn' = Append(withdrawn, item)
    /\ withdrawnAt' = Append(withdrawnAt, Len(deposited))
    /\ buffer' = DequePeekRest(buffer)
    /\ ppc' = "encode"
    /\ UNCHANGED <<publish, session, pipeline, nextCycle, clock, cpc,
                   captureVars, enc, putVars, deposited, stampOf, incomplete>>
BufferPop ==
    /\ ppc = "pop"
    /\ buffer # <<>>
    /\ LET item == DequePopItem(buffer)
       IN /\ depth_colormap' = item[1]
          /\ color_image' = item[2]
          /\ ingress_timestamp' = item[3]
          /\ withdrawn' = Append(withdrawn, item)
    /\ withdrawnAt' = Append(withdrawnAt, Len(deposited))
    /\ buffer' = DequePopRest(buffer)
    /\ ppc' = "encode"
    /\ UNCHANGED <<publish, session, pipeline, nextCycle, clock, cpc,
                   captureVars, enc, putVars, deposited, stampOf, incomplete>>

\* buffer.pop() raises IndexError, caught at line 138.
BufferPopEmptyFallsThrough ==
    /\ ppc = "pop"
    /\ buffer = <<>>
    /\ ppc' = "encode"
    /\ UNCHANGED <<buffer, publish, session, pipeline, nextCycle, clock, cpc,
                   captureVars, mainVars, putVars, historyVars>>
BufferPopEmpty ==
    /\ ppc = "pop"
    /\ buffer = <<>>
    /\ ppc' = "sleep"
    /\ UNCHANGED <<buffer, publish, session, pipeline, nextCycle, clock, cpc,
                   captureVars, mainVars, putVars, historyVars>>

\* time.sleep(0.01); continue, lines 139-140.
SleepNoRetry ==
    /\ ppc = "sleep"
    /\ ppc' = "crashed"
    /\ UNCHANGED <<buffer, publish, session, pipeline, nextCycle, clock, cpc,
                   captureVars, mainVars, putVars, historyVars>>
Sleep ==
    /\ ppc = "sleep"
    /\ ppc' = "pop"
    /\ UNCHANGED <<buffer, publish, session, pipeline, nextCycle, clock, cpc,
                   captureVars, mainVars, putVars, historyVars>>

\* Lines 144-150: shapes, bytes and row strides of both images.
EncodeStepByWidth ==
    /\ ppc = "encode"
    /\ enc' = [height_dep |-> depth_colormap.height,
               width_dep |-> depth_colormap.width,
               len_dep |-> depth_colormap.nbytes,
               width_step_dep |-> depth_colormap.nbytes \div depth_colormap.width,
               height_col |-> color_image.height,
               width_col |-> color_image.width,
               len_color |-> color_image.nbytes,
               width_step_color |-> color_image.nbytes \div color_image.width]
    /\ ppc' = "color"
    /\ UNCHANGED <<buffer, publish, session, pipeline, nextCycle, clock, cpc,
                   captureVars, depth_colormap, color_image, ingress_timestamp,
                   putVars, historyVars>>
Encode ==
    /\ ppc = "encode"
    /\ enc' = [height_dep |-> depth_colormap.height,
               width_dep |-> depth_colormap.width,
               len_dep |-> depth_colormap.nbytes,
               width_step_dep |-> depth_colormap.nbytes \div depth_colormap.height,
               height_col |-> color_image.height,
               width_col |-> color_image.width,
               len_color |-> color_image.nbytes,
               width_step_color |-> color_image.nbytes \div color_image.height]
    /\ ppc' = "color"
    /\ UNCHANGED <<buffer, publish, session, pipeline, nextCycle, clock, cpc,
                   captureVars, depth_colormap, color_image, ingress_timestamp,
                   putVars, historyVars>>

\* Lines 156-171: the color stream.
PublishColorAlways ==
    /\ ppc = "color"
    /\ put_color' = Append(put_color,
                       RawImage(ingress_timestamp, enc.width_col, enc.height_col,
                                enc.width_step_color, color_image))
    /\ \E o \in PutOutcomes :
          dropped' = IF o = "dropped"
                     THEN dropped \cup {Drop("color", color_image)} ELSE dropped
    /\ ppc' = "depth"
    /\ UNCHANGED <<buffer, publish, session, pipeline, nextCycle, clock, cpc,
                   captureVars, mainVars, put_depth, put_point_cloud, historyVars>>
PublishColorRetryOnDrop ==
    /\ ppc = "color"
    /\ IF "raw_color" \in publish
       THEN /\ put_color' = Append(put_color,
                               RawImage(ingress_timestamp, enc.width_col, enc.height_col,
                                        enc.width_step_color, color_image))
            /\ \E o \in PutOutcomes :
                  /\ dropped' = IF o = "dropped"
                                THEN dropped \cup {Drop("color", color_image)} ELSE dropped
                  /\ ppc' = IF o = "dropped" THEN "color" ELSE "depth"
       ELSE /\ put_color' = put_color
            /\ dropped' = dropped
            /\ ppc' = "depth"
    /\ UNCHANGED <<buffer, publish, session, pipeline, nextCycle, clock, cpc,
                   captureVars, mainVars, put_depth, put_point_cloud, historyVars>>
PublishColorThenPop ==
    /\ ppc = "color"
    /\ IF "raw_color" \in publish
       THEN /\ put_color' = Append(put_color,
                               RawImage(ingress_timestamp, enc.width_col, enc.height_col,
                                        enc.width_step_color, color_image))
            /\ \E o \in PutOutcomes :
                  /\ dropped' = IF o = "dropped"
                                THEN dropped \cup {Drop("color", color_image)} ELSE dropped
                  /\ ppc' = "pop"
       ELSE /\ put_color' = put_color
            /\ dropped' = dropped
            /\ ppc' = "pop"
    /\ UNCHANGED <<buffer, publish, session, pipeline, nextCycle, clock, cpc,
                   captureVars, mainVars, put_depth, put_point_cloud, historyVars>>
PublishColor ==
    /\ ppc = "color"
    /\ IF "raw_color" \in publish
       THEN /\ put_color' = Append(put_color,
                               RawImage(ingress_timestamp, enc.width_col, enc.height_col,
                                        enc.width_step_color, color_image))
            /\ \E o \in PutOutcomes :
                  dropped' = IF o = "dropped"
                             THEN dropped \cup {Drop("color", color_image)} ELSE dropped
       ELSE /\ put_color' = put_color
            /\ dropped' = dropped
    /\ ppc' = "depth"
    /\ UNCHANGED <<buffer, publish, session, pipeline, nextCycle, clock, cpc,
                   captureVars, mainVars, put_depth, put_point_cloud, historyVars>>

\* Lines 173-188: the depth stream.
PublishDepthSharedTimestamp ==
    /\ ppc = "depth"
    /\ IF "raw_depth" \in publish
       THEN /\ put_depth' = Append(put_depth,
                               RawImage(cap_ingress_timestamp, enc.width_dep, enc.height_dep,
                                        enc.width_step_dep, depth_colormap))
            /\ \E o \in PutOutcomes :
                  dropped' = IF o = "dropped"
                             THEN dropped \cup {Drop("depth", depth_colormap)} ELSE dropped
       ELSE /\ put_depth' = put_depth
            /\ dropped' = dropped
    /\ ppc' = "pop"
    /\ UNCHANGED <<buffer, publish, session, pipeline, nextCycle, clock, cpc,
                   captureVars, mainVars, put_color, put_point_cloud, historyVars>>
PublishDepthAlsoPointCloud ==
    /\ ppc = "depth"
    /\ IF "raw_depth" \in publish
       THEN /\ put_depth' = Append(put_depth,
                               RawImage(ingress_timestamp, enc.width_dep, enc.height_dep,
                                        enc.width_step_dep, depth_colormap))
            /\ \E o \in PutOutcomes :
                  dropped' = IF o = "dropped"
                             THEN dropped \cup {Drop("depth", depth_colormap)} ELSE dropped
       ELSE /\ put_depth' = put_depth
            /\ dropped' = dropped
    /\ put_point_cloud' = Append(put_point_cloud, depth_colormap)
    /\ ppc' = "pop"
    /\ UNCHANGED <<buffer, publish, session, pipeline, nextCycle, clock, cpc,
                   captureVars, mainVars, put_color, historyVars>>
PublishDepth ==
    /\ ppc = "depth"
    /\ IF "raw_depth" \in publish
       THEN /\ put_depth' = Append(put_depth,
                               RawImage(ingress_timestamp, enc.width_dep, enc.height_dep,
                                        enc.width_step_dep, depth_colormap))
            /\ \E o \in PutOutcomes :
                  dropped' = IF o = "dropped"
                             THEN dropped \cup {Drop("depth", depth_colormap)} ELSE dropped
       ELSE /\ put_depth' = put_depth
            /\ dropped' = dropped
    /\ ppc' = "pop"
    /\ UNCHANGED <<buffer, publish, session, pipeline, nextCycle, clock, cpc,
                   captureVars, mainVars, put_color, put_point_cloud, historyVars>>

\* The positions of the main thread inside the try block of lines 132-190.
InTry == ppc \in {"pop", "sleep", "encode", "color", "depth"}

\* SIGINT: KeyboardInterrupt is raised in the main thread, caught at line 192.
KeyboardInterrupt ==
    /\ InTry
    /\ ppc' = "interrupted"
    /\ UNCHANGED <<buffer, publish, session, pipeline, nextCycle, clock, cpc,
                   captureVars, mainVars, putVars, historyVars>>

\* Lines 193-195: the handler logs and main() returns.
MainReturns ==
    /\ ppc = "interrupted"
    /\ ppc' = "atexit"
    /\ UNCHANGED <<buffer, publish, session, pipeline, nextCycle, clock, cpc,
                   captureVars, mainVars, putVars, historyVars>>

\* _on_exit, lines 37-40: session.close(); the interpreter then exits and
\* the daemon thread ends with it, wherever it is.
OnExit ==
    /\ ppc = "atexit"
    /\ session' = "closed"
    /\ ppc' = "ended"
    /\ UNCHANGED <<buffer, publish, pipeline, nextCycle, clock, cpc,
                   captureVars, mainVars, putVars, historyVars>>

----------------------------------------------------------------------------
CaptureStep ==
    \/ PipelineStart
    \/ PipelineStartFails
    \/ WaitForFrames
    \/ WaitForFramesTimeout
    \/ Stamp
    \/ GetFrames
    \/ Convert
    \/ BufferAppend

MainStep ==
    \/ BufferPop
    \/ BufferPopEmpty
    \/ Sleep
    \/ Encode
    \/ PublishColor
    \/ PublishDepth
    \/ KeyboardInterrupt
    \/ MainReturns
    \/ OnExit

Next == CaptureStep \/ MainStep

Spec == Init /\ [][Next]_vars

\* The steps the main thread takes by itself (an interrupt comes from outside).
MainRuns ==
    \/ BufferPop
    \/ BufferPopEmpty
    \/ Sleep
    \/ Encode
    \/ PublishColor
    \/ PublishDepth
    \/ MainReturns
    \/ OnExit

\* wait_for_frames in the runs in which the device delivers at most
\* LiveCycles frame sets.
LiveWaitForFrames == nextCycle <= LiveCycles /\ WaitForFrames

FairNext ==
    \/ PipelineStart
    \/ PipelineStartFails
    \/ LiveWaitForFrames
    \/ WaitForFramesTimeout
    \/ Stamp
    \/ GetFrames
    \/ Convert
    \/ BufferAppend
    \/ MainStep

\* The main thread is a running thread of the process: it is not suspended
\* forever. Nothing is assumed of the device or of the arrival of a signal.
FairSpec == Init /\ [][FairNext]_vars /\ WF_vars(MainRuns)

----------------------------------------------------------------------------
(* Properties                                                              *)

\* The capture cycle an item of the deque was built in.
Cycle(item) == item[2].cycle

\* Len(deposited) at the pop before the k-th one (0 before the first).
PrevAt(k) == IF k = 1 THEN 0 ELSE withdrawnAt[k - 1]

\* Len(deposited) at the last pop (0 when nothing was popped yet).
LastAt == IF withdrawnAt = <<>> THEN 0 ELSE withdrawnAt[Len(withdrawnAt)]

\* The main thread is at the top of its loop: every popped item is processed.
AtLoopTop == ppc \in {"pop", "sleep"}

\* C1 (latest-wins): every pop returns the item of the most recent append;
\* an item that was appended and then followed by another append before any
\* pop is returned by no pop at all; and a pop leaves the deque empty, so that
\* whatever the deque holds was appended after the last pop.
LatestWins ==
    /\ \A k \in 1..Len(withdrawn) :
          /\ withdrawnAt[k] \in 1..Len(deposited)
          /\ withdrawn[k] = deposited[withdrawnAt[k]]
          /\ \A j \in (PrevAt(k) + 1)..(withdrawnAt[k] - 1) :
                \A m \in 1..Len(withdrawn) : withdrawn[m] # deposited[j]
    /\ buffer # <<>> =>
          /\ buffer = <<deposited[Len(deposited)]>>
          /\ LastAt < Len(deposited)

\* Two appends with no pop in between, then a pop.
LatestWinsWitness ==
    /\ ppc = "encode"
    /\ \E k \in 1..Len(withdrawn) : withdrawnAt[k] >= PrevAt(k) + 2
    /\ buffer = <<>>

\* C2 (ordering without duplication): the items appended carry strictly
\* increasing capture cycles; the items popped are items appended, in
\* strictly increasing cycle order (so none is popped twice and none out of
\* order); and the payloads put on each stream are those of popped items, in
\* strictly increasing cycle order.
OrderedNoDuplicates ==
    /\ \A i, j \in 1..Len(deposited) : i < j => Cycle(deposited[i]) < Cycle(deposited[j])
    /\ \A k \in 1..Len(withdrawn) : \E i \in 1..Len(deposited) : withdrawn[k] = deposited[i]
    /\ \A i, j \in 1..Len(withdrawn) : i < j => Cycle(withdrawn[i]) < Cycle(withdrawn[j])
    /\ \A i \in 1..Len(put_color) :
          \E k \in 1..Len(withdrawn) : put_color[i].data.cycle = Cycle(withdrawn[k])
    /\ \A i, j \in 1..Len(put_color) :
          i < j => put_color[i].data.cycle < put_color[j].data.cycle
    /\ \A i \in 1..Len(put_depth) :
          \E k \in 1..Len(withdrawn) : put_depth[i].data.cycle = Cycle(withdrawn[k])
    /\ \A i, j \in 1..Len(put_depth) :
          i < j => put_depth[i].data.cycle < put_depth[j].data.cycle

\* Three appends, the second never popped, the first and third popped and
\* published on both streams.
OrderedNoDuplicatesWitness ==
    /\ Len(deposited) = 3
    /\ withdrawnAt = <<1, 3>>
    /\ Len(put_color) = 2
    /\ Len(put_depth) = 2

\* An item whose three components come from one capture cycle.
SameCycle(item) ==
    /\ item[1].kind = "depth_colormap"
    /\ item[2].kind = "color_image"
    /\ item[1].cycle = item[2].cycle
    /\ item[2].cycle \in DOMAIN stampOf
    /\ item[3] = stampOf[item[2].cycle]

\* C3 (atomicity): every popped item, and the three locals the main thread
\* unpacked it into, hold a depth colormap, a color image and the timestamp
\* of one and the same capture cycle.
Atomicity ==
    /\ \A k \in 1..Len(withdrawn) : SameCycle(withdrawn[k])
    /\ ppc \in {"encode", "color", "depth"} =>
          /\ SameCycle(<<depth_colormap, color_image, ingress_timestamp>>)
          /\ <<depth_colormap, color_image, ingress_timestamp>> = withdrawn[Len(withdrawn)]

\* A pop that follows a cycle with a missing frame and happens while the
\* capture thread is in the middle of a later cycle.
AtomicityWitness ==
    /\ ppc = "encode"
    /\ incomplete # {}
    /\ \E c \in incomplete : c < Cycle(withdrawn[Len(withdrawn)])
    /\ cpc \in {"get", "convert", "append"}

\* C4: the deque holds at most one item.
SlotHoldsAtMostOne == Len(buffer) <= 1

\* Two appends since the last pop.
SlotHoldsAtMostOneWitness ==
    /\ Len(buffer) = 1
    /\ Len(deposited) >= LastAt + 2

\* C5 (non-blocking): a pop of the empty deque sends the main thread to its
\* sleep with the deque still empty and nothing popped or published, and the
\* sleep sends it back to the pop; the append is enabled whenever the capture
\* thread is at it, whether the deque is empty or not, and it stores the item.
NonBlocking ==
    /\ [](ProcessAlive /\ cpc = "append" => ENABLED BufferAppend)
    /\ [][(ppc = "pop" /\ buffer = <<>> /\ ppc' \notin {"pop", "interrupted"}) =>
             /\ ppc' = "sleep"
             /\ buffer' = <<>>
             /\ UNCHANGED <<mainVars, putVars, withdrawn>>]_vars
    /\ [][(ppc = "sleep" /\ ppc' \notin {"sleep", "interrupted"}) =>
             /\ ppc' = "pop"
             /\ UNCHANGED <<buffer, mainVars, putVars, withdrawn>>]_vars
    /\ [][(cpc = "append" /\ cpc' # "append") =>
             /\ cpc' = "wait"
             /\ Len(deposited') = Len(deposited) + 1
             /\ buffer' = <<deposited'[Len(deposited')]>>]_vars

\* The main thread found the deque empty and sleeps, and the capture thread
\* has since appended to the empty and then to the occupied deque.
NonBlockingWitness ==
    /\ ppc = "sleep"
    /\ withdrawn = <<>>
    /\ Len(deposited) >= 2
    /\ Len(buffer) = 1

\* C6 (burst collapse): when three items were appended before the first pop
\* that returned one, and none after, then at most one item is ever popped,
\* it is the third, each enabled stream gets its payload and no other, and
\* once the main thread is back at the top of its loop it got it exactly once.
BurstCollapse ==
    (/\ Len(deposited) = 3
     /\ withdrawn # <<>> => withdrawnAt[1] = 3) =>
        /\ Len(withdrawn) <= 1
        /\ withdrawn # <<>> => withdrawn[1] = deposited[3]
        /\ Len(put_color) <= 1
        /\ Len(put_depth) <= 1
        /\ \A i \in 1..Len(put_color) : put_color[i].data.cycle = Cycle(deposited[3])
        /\ \A i \in 1..Len(put_depth) : put_depth[i].data.cycle = Cycle(deposited[3])
        /\ (withdrawn # <<>> /\ AtLoopTop) =>
              /\ Len(put_color) = IF "raw_color" \in publish THEN 1 ELSE 0
              /\ Len(put_depth) = IF "raw_depth" \in publish THEN 1 ELSE 0

\* The burst of three, popped once and published on both streams, with the
\* main thread polling the empty deque again.
BurstCollapseWitness ==
    /\ Len(deposited) = 3
    /\ withdrawnAt = <<3>>
    /\ ppc = "sleep"
    /\ buffer = <<>>
    /\ publish = {"raw_color", "raw_depth"}
    /\ Len(put_color) = 1
    /\ Len(put_depth) = 1

\* C7 (incomplete frame set): no appended item belongs to a cycle whose frame
\* set lacked a frame; and the step that examines such a frame set leaves the
\* deque and the list of appended items as they are and takes the capture
\* thread back to wait_for_frames, not to an error.
IncompleteSkipped ==
    /\ [](\A i \in 1..Len(deposited) :
             /\ deposited[i][1].cycle \notin incomplete
             /\ deposited[i][2].cycle \notin incomplete)
    /\ [][(cpc = "get" /\ cpc' # "get" /\ (~frames.depth \/ ~frames.color)) =>
             /\ cpc' = "wait"
             /\ buffer' = buffer
             /\ deposited' = deposited]_vars
    /\ [](cpc = "wait" /\ ProcessAlive /\ nextCycle <= MaxCycles => ENABLED WaitForFrames)

\* A cycle without depth frame was skipped while the deque held an item, and
\* a later cycle was appended.
IncompleteSkippedWitness ==
    /\ \E c \in incomplete :
          /\ \E i \in 1..Len(deposited) : Cycle(deposited[i]) < c
          /\ \E i \in 1..Len(deposited) : Cycle(deposited[i]) > c
    /\ cpc = "wait"

\* The payloads put on a stream are those of the popped items, one each.
OnePerWithdrawn(puts, n) ==
    /\ Len(puts) = n
    /\ \A i \in 1..n : puts[i].data.cycle = Cycle(withdrawn[i])

\* C8 (stream enablement): a stream that is not enabled never gets a payload;
\* an enabled stream has got exactly one payload for every popped item the
\* main thread has taken past that stream's block (all of them when it is at
\* the top of its loop); an interrupt can only cut off the last item.
StreamEnablement ==
    /\ "raw_color" \notin publish => put_color = <<>>
    /\ "raw_depth" \notin publish => put_depth = <<>>
    /\ "raw_color" \in publish =>
          CASE ppc \in {"pop", "sleep", "depth"} -> OnePerWithdrawn(put_color, Len(withdrawn))
            [] ppc \in {"encode", "color"} -> OnePerWithdrawn(put_color, Len(withdrawn) - 1)
            [] OTHER -> \/ OnePerWithdrawn(put_color, Len(withdrawn))
                        \/ OnePerWithdrawn(put_color, Len(withdrawn) - 1)
    /\ "raw_depth" \in publish =>
          CASE ppc \in {"pop", "sleep"} -> OnePerWithdrawn(put_depth, Len(withdrawn))
            [] ppc \in {"encode", "color", "depth"} -> OnePerWithdrawn(put_depth, Len(withdrawn) - 1)
            [] OTHER -> \/ OnePerWithdrawn(put_depth, Len(withdrawn))
                        \/ OnePerWithdrawn(put_depth, Len(withdrawn) - 1)

\* Only color enabled, one item appended, popped and processed: one payload
\* on the color stream (640 x 480, step 1920, bgr8), none on the depth stream.
StreamEnablementWitness ==
    /\ publish = {"raw_color"}
    /\ Len(deposited) = 1
    /\ Len(withdrawn) = 1
    /\ ppc = "pop"
    /\ Len(put_color) = 1
    /\ put_color[1].width = 640
    /\ put_color[1].height = 480
    /\ put_color[1].step = 1920
    /\ put_color[1].encoding = "bgr8"
    /\ put_color[1].timestamp = withdrawn[1][3]
    /\ put_depth = <<>>

\* C9 (wait timeout not fatal), as claimed: the capture thread is never ended
\* by a failing wait_for_frames call.
WaitTimeoutNotFatal == cpc # "wait_failed"

\* C10 (shutdown), as claimed: when the process has ended after an interrupt,
\* the session is closed, the pipeline that was started has been stopped and
\* the capture thread has left its loop.
ShutdownReleasesAll ==
    ppc = "ended" =>
        /\ session = "closed"
        /\ pipeline # "started"
        /\ cpc \notin {"wait", "stamp", "get", "convert", "append"}

\* C11 (device initialization failure is fatal), as claimed: once
\* pipeline.start has failed in the capture thread, the process ends.
StartFailureEndsProcess == (cpc = "start_failed") ~> (ppc = "ended")

\* A payload whose row stride times its height is its data length.
StrideExact(p) ==
    /\ p.height > 0
    /\ p.data.len % p.height = 0
    /\ p.step = p.data.len \div p.height
    /\ p.step * p.height = p.data.len

PutCount(puts, c) == Cardinality({i \in 1..Len(puts) : puts[i].data.cycle = c})

TimestampIntegrity ==
    /\ \A i \in 1..Len(put_color) :
          /\ put_color[i].data.cycle \in DOMAIN stampOf
          /\ put_color[i].timestamp = stampOf[put_color[i].data.cycle]
    /\ \A i \in 1..Len(put_depth) :
          /\ put_depth[i].data.cycle \in DOMAIN stampOf
          /\ put_depth[i].timestamp = stampOf[put_depth[i].data.cycle]
    /\ \A i \in 1..Len(put_color) : \A j \in 1..Len(put_depth) :
          put_color[i].data.cycle = put_depth[j].data.cycle =>
             put_color[i].timestamp = put_depth[j].timestamp
    /\ ppc \in {"encode", "color", "depth"} =>
          /\ color_image.cycle \in DOMAIN stampOf
          /\ ingress_timestamp = stampOf[color_image.cycle]
          /\ depth_colormap.cycle = color_image.cycle

\* Between the color put and the depth put of an item, the capture thread has
\* appended a newer item with another timestamp.
TimestampIntegrityWitness ==
    /\ ppc = "depth"
    /\ publish = {"raw_color", "raw_depth"}
    /\ Len(put_color) >= 1
    /\ put_color[Len(put_color)].data.cycle = color_image.cycle
    /\ buffer # <<>>
    /\ Cycle(buffer[1]) > color_image.cycle
    /\ buffer[1][3] # ingress_timestamp
    /\ cap_ingress_timestamp # ingress_timestamp

\* C15 (reserved point-cloud topic): nothing is ever put on
\* publisher_point_cloud.
PointCloudNeverPublished == put_point_cloud = <<>>

\* Two items went through both streams.
PointCloudNeverPublishedWitness ==
    /\ AtLoopTop
    /\ Len(put_color) >= 2
    /\ Len(put_depth) >= 2
    /\ put_point_cloud = <<>>

\* The payload p is the image of kind k of an item that was appended and
\* popped.
FromWithdrawn(p, k) ==
    \E n \in 1..Len(withdrawn) :
        /\ \E i \in 1..Len(deposited) : deposited[i] = withdrawn[n]
        /\ p.data.cycle = withdrawn[n][k].cycle
        /\ p.data.kind = withdrawn[n][k].kind
        /\ p.timestamp = withdrawn[n][3]

\* C16 (no spurious publish): every payload put on a stream is built from an
\* item that was appended and then popped; the main thread works on an item
\* only after popping it; and puts per stream <= pops <= appends.
NoSpuriousPublish ==
    /\ Len(put_color) <= Len(withdrawn)
    /\ Len(put_depth) <= Len(withdrawn)
    /\ Len(withdrawn) <= Len(deposited)
    /\ \A i \in 1..Len(put_color) : FromWithdrawn(put_color[i], 2)
    /\ \A i \in 1..Len(put_depth) : FromWithdrawn(put_depth[i], 1)
    /\ ppc \in {"encode", "color", "depth"} =>
          /\ withdrawn # <<>>
          /\ withdrawn[Len(withdrawn)] = <<depth_colormap, color_image, ingress_timestamp>>

\* Three appends, two pops, and the second item between its two puts.
NoSpuriousPublishWitness ==
    /\ Len(deposited) = 3
    /\ Len(withdrawn) = 2
    /\ Len(put_color) = 2
    /\ Len(put_depth) = 1

\* The deque holds the item of capture cycle c.
InSlot(c) == buffer # <<>> /\ Cycle(buffer[Len(buffer)]) = c

\* The item of cycle c was popped.
Withdrawn(c) == \E k \in 1..Len(withdrawn) : Cycle(withdrawn[k]) = c

\* The item of cycle c was replaced in the deque by a later one.
Superseded(c) ==
    /\ ~Withdrawn(c)
    /\ \E i \in 1..Len(deposited) : Cycle(deposited[i]) > c

\* The item of cycle c was popped and put on every enabled stream.
PublishedOnEnabled(c) ==
    /\ Withdrawn(c)
    /\ "raw_color" \in publish => PutCount(put_color, c) = 1
    /\ "raw_depth" \in publish => PutCount(put_depth, c) = 1

\* The main thread has left its loop on a KeyboardInterrupt.
MainInterrupted == ppc \in {"interrupted", "atexit", "ended"}

\* C17 (eventual publication): with the main thread running, an item in the
\* deque is eventually popped and put on every enabled stream, unless a later
\* append replaces it first or a KeyboardInterrupt ends the main loop.
EventualPublication ==
    \A c \in 1..LiveCycles :
        InSlot(c) ~> (PublishedOnEnabled(c) \/ Superseded(c) \/ MainInterrupted)

\* The device has delivered its last frame set, and the last item appended
\* was popped and put on both streams.
EventualPublicationWitness ==
    /\ nextCycle > LiveCycles
    /\ cpc = "wait"
    /\ buffer = <<>>
    /\ publish = {"raw_color", "raw_depth"}
    /\ deposited # <<>>
    /\ Cycle(deposited[Len(deposited)]) = LiveCycles
    /\ PublishedOnEnabled(LiveCycles)
    /\ AtLoopTop

\* C18 (per-frame publish order): with both streams enabled, the depth
\* payload of an item is put only after its color payload (the i-th depth put
\* is for the item of the i-th color put), and at every pop both payloads of
\* every item popped before have been put.
PublishOrder ==
    /\ [](publish = {"raw_color", "raw_depth"} =>
             /\ Len(put_depth) <= Len(put_color)
             /\ \A i \in 1..Len(put_depth) :
                   put_depth[i].data.cycle = put_color[i].data.cycle)
    /\ [][(publish = {"raw_color", "raw_depth"} /\ withdrawn' # withdrawn) =>
             /\ Len(put_color) = Len(withdrawn)
             /\ Len(put_depth) = Len(withdrawn)
             /\ \A k \in 1..Len(withdrawn) :
                   /\ put_color[k].data.cycle = Cycle(withdrawn[k])
                   /\ put_depth[k].data.cycle = Cycle(withdrawn[k])]_vars

\* A second item was popped after both payloads of the first were put.
PublishOrderWitness ==
    /\ publish = {"raw_color", "raw_depth"}
    /\ ppc = "depth"
    /\ Len(withdrawn) = 2
    /\ Len(put_color) = 2
    /\ Len(put_depth) = 1

====
